---- MODULE Spec2Model ----
(***************************************************************************)
(* Model of icons/generate_icons.py: the canvas closures of draw_gear_icon *)
(* (set_pixel, fill_circle, fill_rect, the letter glyphs), the body of     *)
(* draw_gear_icon, and the payload built by create_png.                    *)
(*                                                                         *)
(* Python floats are IEEE-754 binary64.  The blend of set_pixel is         *)
(* modelled bit-exactly: a positive double below 2^9 is kept as the        *)
(* natural number value * 2^64, held in NLimbs limbs of 16 bits, and every *)
(* float operation is the exact operation followed by round-to-nearest-    *)
(* even to 53 significant bits (RN53).                                     *)
(*                                                                         *)
(* Coordinates of the fill routines are fixed point, Unit steps per pixel. *)
(***************************************************************************)
EXTENDS Integers, Sequences, FiniteSets, TLC

VARIABLES size, pixels, pc, tooth, nops, call, before, input, png

vars == <<size, pixels, pc, tooth, nops, call, before, input, png>>

(* ------------------------------ bounds --------------------------------- *)
\* largest canvas of the closures called one at a time, and how many calls
MaxSize == 2
MaxOps == 2
\* largest icon drawn by draw_gear_icon
MaxIcon == 8
\* largest canvas of a single fill_circle or fill_rect call
MaxShape == 3
\* canvas of a single letter
GlyphSize == 12
\* largest width and height handed to create_png
MaxDim == 2

(* --------------------- binary64 arithmetic helpers ---------------------- *)
Limb == 65536
NLimbs == 5
Mantissa == 53

Min(a, b) == IF a < b THEN a ELSE b
Max(a, b) == IF a > b THEN a ELSE b

\* the element of a singleton set.  TLC re-evaluates an operator argument at
\* each use; an argument that is costly is first bound as v \in {argument},
\* which evaluates it once.
Only(S) == CHOOSE v \in S : TRUE

RECURSIVE Pow2(_)
Pow2(n) == IF n = 0 THEN 1 ELSE 2 * Pow2(n - 1)

\* the natural number n * 2^64 (n < Limb): the double n, scaled
BigInt(n) == [k \in 1..NLimbs |-> IF k = NLimbs THEN n ELSE 0]

RECURSIVE AddFrom(_, _, _, _)
AddFrom(a, b, k, c) ==
    IF k > NLimbs THEN <<>>
    ELSE LET s == a[k] + b[k] + c
         IN  <<s % Limb>> \o AddFrom(a, b, k + 1, s \div Limb)
BigAdd(a, b) == AddFrom(a, b, 1, 0)

RECURSIVE SubFrom(_, _, _, _)
SubFrom(a, b, k, c) ==
    IF k > NLimbs THEN <<>>
    ELSE LET s == a[k] - b[k] - c
         IN  <<s % Limb>> \o SubFrom(a, b, k + 1, IF s < 0 THEN 1 ELSE 0)
BigSub(a, b) == SubFrom(a, b, 1, 0)

RECURSIVE MulFrom(_, _, _, _)
MulFrom(a, m, k, c) ==
    IF k > NLimbs THEN <<>>
    ELSE LET s == a[k] * m + c
         IN  <<s % Limb>> \o MulFrom(a, m, k + 1, s \div Limb)
\* a * m for 0 <= m < 2^15
BigMul(a, m) == MulFrom(a, m, 1, 0)

RECURSIVE DivFrom(_, _, _, _)
DivFrom(a, d, k, rem) ==
    IF k = 0 THEN <<>>
    ELSE LET cur == rem * Limb + a[k]
         IN  DivFrom(a, d, k - 1, cur % d) \o <<cur \div d>>
\* floor(a / d) for 0 < d <= 2^15
BigDiv(a, d) == DivFrom(a, d, NLimbs, 0)

LimbsUp(a, n) == [k \in 1..NLimbs |-> IF k - n >= 1 THEN a[k - n] ELSE 0]
LimbsDown(a, n) == [k \in 1..NLimbs |-> IF k + n <= NLimbs THEN a[k + n] ELSE 0]

BigShl(a, s) == BigMul(LimbsUp(a, s \div 16), Pow2(s % 16))
BigShr(a, s) == BigDiv(LimbsDown(a, s \div 16), Pow2(s % 16))

RECURSIVE CmpFrom(_, _, _)
CmpFrom(a, b, k) ==
    IF k = 0 THEN 0
    ELSE IF a[k] > b[k] THEN 1
    ELSE IF a[k] < b[k] THEN -1
    ELSE CmpFrom(a, b, k - 1)
BigCmp(a, b) == CmpFrom(a, b, NLimbs)

RECURSIVE BitLenSmall(_)
BitLenSmall(n) == IF n = 0 THEN 0 ELSE 1 + BitLenSmall(n \div 2)

RECURSIVE BitLenFrom(_, _)
BitLenFrom(a, k) ==
    IF k = 0 THEN 0
    ELSE IF a[k] # 0 THEN (k - 1) * 16 + BitLenSmall(a[k])
    ELSE BitLenFrom(a, k - 1)
BitLen(a) == BitLenFrom(a, NLimbs)

BigOne == [k \in 1..NLimbs |-> IF k = 1 THEN 1 ELSE 0]

\* round to nearest, ties to even, keeping Mantissa significant bits
Round(a) ==
    LET len == BitLen(a)
    IN  IF len <= Mantissa THEN a
        ELSE LET s    == len - Mantissa
                 q    == BigShr(a, s)
                 rest == BigSub(a, BigShl(q, s))
                 half == BigShl(BigOne, s - 1)
                 c    == BigCmp(rest, half)
                 up   == c > 0 \/ (c = 0 /\ q[1] % 2 = 1)
             IN  BigShl(IF up THEN BigAdd(q, BigOne) ELSE q, s)
RN53(a) == Only({ Round(v) : v \in {a} })

\* fa = a / 255.0 for 0 <= a <= 255.  When 255 does not divide a the quotient
\* is not a dyadic rational, so the floor of a * 2^64 / 255 with its last bit
\* set rounds as the exact quotient does.
FloatDiv255(a) ==
    LET q == BigDiv(BigInt(a), 255)
    IN  IF a % 255 = 0 THEN BigInt(a \div 255)
        ELSE RN53([q EXCEPT ![1] = (q[1] \div 2) * 2 + 1])

\* int(x) of a non-negative double: the integer part
FloatToInt(a) == a[NLimbs]

\* int(c * fa + old * (1 - fa)) with fa = a / 255.0
BlendChannel(c, old, a) ==
    Only({ FloatToInt(RN53(BigAdd(RN53(BigMul(fa, c)),
                                  RN53(BigMul(RN53(BigSub(BigInt(1), fa)), old)))))
           : fa \in {FloatDiv255(a)} })

(* ------------------------------ canvas --------------------------------- *)
NewPixels(sz) == [k \in 0..(sz * sz * 4 - 1) |-> 0]

InCanvas(x, y) == 0 <= x /\ x < size /\ 0 <= y /\ y < size

\* the test of the overwrite branch
Outright(old_a, a) == old_a = 0 \/ a = 255

\* mutant of Overwrite: the alpha channel is not stored
OverwriteKeepAlpha(px, idx, r, g, b, a) ==
    [px EXCEPT ![idx] = r, ![idx + 1] = g, ![idx + 2] = b]

Overwrite(px, idx, r, g, b, a) ==
    [px EXCEPT ![idx] = r, ![idx + 1] = g, ![idx + 2] = b, ![idx + 3] = a]

\* mutant of AddAlpha: the accumulated alpha is not clamped
AddAlphaUnclamped(old_a, a) == old_a + a

AddAlpha(old_a, a) == Min(255, old_a + a)

\* the body of set_pixel once the coordinates passed the canvas test
blend_at(px, idx, r, g, b, a) ==
    LET old_a == px[idx + 3]
    IN  IF Outright(old_a, a)
        THEN Overwrite(px, idx, r, g, b, a)
        ELSE IF a > 0
        THEN [px EXCEPT ![idx]     = BlendChannel(r, px[idx], a),
                        ![idx + 1] = BlendChannel(g, px[idx + 1], a),
                        ![idx + 2] = BlendChannel(b, px[idx + 2], a),
                        ![idx + 3] = AddAlpha(old_a, a)]
        ELSE px

\* mutant of set_pixel: coordinates are clamped into the canvas, not clipped
set_pixel_clamped(px, x, y, r, g, b, a) ==
    blend_at(px, (Max(0, Min(size - 1, y)) * size + Max(0, Min(size - 1, x))) * 4,
             r, g, b, a)

set_pixel(px, x, y, r, g, b, a) ==
    IF InCanvas(x, y) THEN blend_at(px, (y * size + x) * 4, r, g, b, a) ELSE px

\* the buffer indices one set_pixel(x, y, ...) reads and writes
set_pixel_idxs(x, y) ==
    IF InCanvas(x, y)
    THEN LET idx == (y * size + x) * 4 IN {idx, idx + 1, idx + 2, idx + 3}
    ELSE {}

\* set_pixel on the points pts[lo..hi] of a sequence, in order (the range is
\* halved rather than peeled so that the evaluation stays shallow)
RECURSIVE BlendRange(_, _, _, _, _, _, _, _)
BlendRange(px, pts, lo, hi, r, g, b, a) ==
    IF lo > hi THEN px
    ELSE IF lo = hi THEN set_pixel(px, pts[lo][1], pts[lo][2], r, g, b, a)
    ELSE Only({ BlendRange(q, pts, (lo + hi) \div 2 + 1, hi, r, g, b, a)
                : q \in {BlendRange(px, pts, lo, (lo + hi) \div 2, r, g, b, a)} })

BlendAll(px, pts, r, g, b, a) ==
    Only({ BlendRange(q, s, 1, Len(s), r, g, b, a) : q \in {px}, s \in {pts} })

(* --------------------------- fill routines ------------------------------ *)
\* steps per pixel of the fixed-point coordinates
Unit == 1000

\* int(v): truncation toward zero
Trunc(v) == IF v >= 0 THEN v \div Unit ELSE -((-v) \div Unit)

\* for y in range(ylo, yhi): for x in range(xlo, xhi), as a sequence
Scan(xlo, xhi, ylo, yhi) ==
    LET w == Max(0, xhi - xlo)
        h == Max(0, yhi - ylo)
    IN  [k \in 1..(w * h) |-> <<xlo + ((k - 1) % w), ylo + ((k - 1) \div w)>>]

\* mutant of DistLeq: the boundary of the disc is left out
DistLess(x, y, cx, cy, radius) ==
    /\ radius >= 0
    /\ (x * Unit - cx) * (x * Unit - cx) + (y * Unit - cy) * (y * Unit - cy)
          < radius * radius

\* math.sqrt((x - cx)**2 + (y - cy)**2) <= radius
DistLeq(x, y, cx, cy, radius) ==
    /\ radius >= 0
    /\ (x * Unit - cx) * (x * Unit - cx) + (y * Unit - cy) * (y * Unit - cy)
          <= radius * radius

\* the points fill_circle hands to set_pixel, in scan order
CircleHits(cx, cy, radius) ==
    SelectSeq(Scan(Max(0, Trunc(cx - radius - Unit)),
                   Min(size, Trunc(cx + radius + 2 * Unit)),
                   Max(0, Trunc(cy - radius - Unit)),
                   Min(size, Trunc(cy + radius + 2 * Unit))),
              LAMBDA p : DistLeq(p[1], p[2], cx, cy, radius))

fill_circle(px, cx, cy, radius, r, g, b, a) ==
    BlendAll(px, CircleHits(cx, cy, radius), r, g, b, a)

\* mutant of RectHits: the right and bottom edges are included
RectHitsInclusive(x1, y1, x2, y2) ==
    Scan(Max(0, Trunc(x1)), Min(size, Trunc(x2) + 1),
         Max(0, Trunc(y1)), Min(size, Trunc(y2) + 1))

\* the points fill_rect hands to set_pixel, in scan order
RectHits(x1, y1, x2, y2) ==
    Scan(Max(0, Trunc(x1)), Min(size, Trunc(x2)),
         Max(0, Trunc(y1)), Min(size, Trunc(y2)))

fill_rect(px, x1, y1, x2, y2, r, g, b, a) ==
    BlendAll(px, RectHits(x1, y1, x2, y2), r, g, b, a)

(* ------------------------------ glyphs --------------------------------- *)
\* the fill_rect calls of each letter, in order, as <<x1, y1, x2, y2>>
LetterIRects(sx, sy, w, h) ==
    LET bar_w == Max(2, w \div 3)
    IN  << <<sx, sy, sx + w, sy + bar_w>>,
           <<sx + (w \div 2) - (bar_w \div 2), sy,
             sx + (w \div 2) + (bar_w \div 2) + 1, sy + h>>,
           <<sx, sy + h - bar_w, sx + w, sy + h>> >>

LetterNRects(sx, sy, w, h) ==
    LET bar_w == Max(2, w \div 4)
    IN  << <<sx, sy, sx + bar_w, sy + h>>,
           <<sx + w - bar_w, sy, sx + w, sy + h>>,
           <<sx, sy, sx + w, sy + bar_w>> >>

LetterSRects(sx, sy, w, h) ==
    LET bar_w == Max(2, w \div 4)
        mid   == sy + (h \div 2)
    IN  << <<sx, sy, sx + w, sy + bar_w>>,
           <<sx, sy, sx + bar_w, mid>>,
           <<sx, mid - (bar_w \div 2), sx + w, mid + (bar_w \div 2) + 1>>,
           <<sx + w - bar_w, mid, sx + w, sy + h>>,
           <<sx, sy + h - bar_w, sx + w, sy + h>> >>

\* fill_rect on each rectangle (integer corners) of a sequence, in order
RECURSIVE FillRects(_, _, _)
FillRects(px, rects, color) ==
    IF rects = <<>> THEN px
    ELSE Only({ FillRects(q, Tail(rects), color)
                : q \in {fill_rect(px, Head(rects)[1] * Unit, Head(rects)[2] * Unit,
                                   Head(rects)[3] * Unit, Head(rects)[4] * Unit,
                                   color[1], color[2], color[3], 255)} })

RECURSIVE RectsHits(_)
RectsHits(rects) ==
    IF rects = <<>> THEN <<>>
    ELSE LET q == Head(rects)
         IN  RectHits(q[1] * Unit, q[2] * Unit, q[3] * Unit, q[4] * Unit)
                \o RectsHits(Tail(rects))

draw_letter_i(px, sx, sy, w, h, color) == FillRects(px, LetterIRects(sx, sy, w, h), color)
draw_letter_n(px, sx, sy, w, h, color) == FillRects(px, LetterNRects(sx, sy, w, h), color)
draw_letter_s(px, sx, sy, w, h, color) == FillRects(px, LetterSRects(sx, sy, w, h), color)

(* ------------------------- calls and their record ----------------------- *)
Range(f) == { f[k] : k \in DOMAIN f }

\* the buffer indices used by the set_pixel calls on the points hits
IdxsOf(hits) == UNION { set_pixel_idxs(p[1], p[2]) : p \in Range(hits) }

Called(op, args, hits) ==
    [op |-> op, args |-> args, hits |-> hits, idxs |-> IdxsOf(hits)]

NoCall == [op |-> "none", args |-> <<>>, hits |-> <<>>, idxs |-> {}]

SetPixel(x, y, ink) ==
    /\ pixels' = set_pixel(pixels, x, y, ink[1], ink[2], ink[3], ink[4])
    /\ call' = Called("set_pixel", <<x, y>> \o ink, << <<x, y>> >>)
    /\ before' = pixels
    /\ UNCHANGED <<size, input, png>>

FillCircle(cx, cy, radius, ink) ==
    /\ pixels' = fill_circle(pixels, cx, cy, radius, ink[1], ink[2], ink[3], ink[4])
    /\ call' = Called("fill_circle", <<cx, cy, radius>> \o ink,
                      CircleHits(cx, cy, radius))
    /\ before' = pixels
    /\ UNCHANGED <<size, input, png>>

FillRect(x1, y1, x2, y2, ink) ==
    /\ pixels' = fill_rect(pixels, x1, y1, x2, y2, ink[1], ink[2], ink[3], ink[4])
    /\ call' = Called("fill_rect", <<x1, y1, x2, y2>> \o ink,
                      RectHits(x1, y1, x2, y2))
    /\ before' = pixels
    /\ UNCHANGED <<size, input, png>>

DrawLetterI(sx, sy, w, h, color) ==
    /\ pixels' = draw_letter_i(pixels, sx, sy, w, h, color)
    /\ call' = Called("draw_letter_i", <<sx, sy, w, h>> \o color,
                      RectsHits(LetterIRects(sx, sy, w, h)))
    /\ before' = pixels
    /\ UNCHANGED <<size, input, png>>

DrawLetterN(sx, sy, w, h, color) ==
    /\ pixels' = draw_letter_n(pixels, sx, sy, w, h, color)
    /\ call' = Called("draw_letter_n", <<sx, sy, w, h>> \o color,
                      RectsHits(LetterNRects(sx, sy, w, h)))
    /\ before' = pixels
    /\ UNCHANGED <<size, input, png>>

DrawLetterS(sx, sy, w, h, color) ==
    /\ pixels' = draw_letter_s(pixels, sx, sy, w, h, color)
    /\ call' = Called("draw_letter_s", <<sx, sy, w, h>> \o color,
                      RectsHits(LetterSRects(sx, sy, w, h)))
    /\ before' = pixels
    /\ UNCHANGED <<size, input, png>>

(* ------------- the closures called one at a time (Spec) ----------------- *)
\* colour and alpha arguments <<r, g, b, a>>
Inks == { <<80, 100, 200, 255>>, <<3, 103, 206, 128>>, <<40, 100, 41, 0>> }

\* coordinates around both edges of the canvas
EdgeCoords == {-1, 0, size - 1, size}

\* <<cx, cy, radius>>
ApiCircles == { <<500, 500, 500>>, <<1000, 1000, 1000>>, <<-250, 750, 1250>> }

\* <<x1, y1, x2, y2>>
ApiRects == { <<0, 0, 1000, 2500>>, <<-1500, 500, 2500, 1500>>,
              <<1000, 0, 1000, 2000>> }

ApiInit ==
    /\ size \in 1..MaxSize
    /\ pixels = NewPixels(size)
    /\ pc = "api"
    /\ tooth = 0
    /\ nops = 0
    /\ call = NoCall
    /\ before = pixels
    /\ input = <<>>
    /\ png = <<>>

ApiStep ==
    /\ pc = "api"
    /\ nops < MaxOps
    /\ nops' = nops + 1
    /\ UNCHANGED <<pc, tooth>>

ApiSetPixel ==
    /\ ApiStep
    /\ \E x \in EdgeCoords, y \in EdgeCoords, ink \in Inks : SetPixel(x, y, ink)

ApiFillCircle ==
    /\ ApiStep
    /\ \E c \in ApiCircles, ink \in Inks : FillCircle(c[1], c[2], c[3], ink)

ApiFillRect ==
    /\ ApiStep
    /\ \E q \in ApiRects, ink \in Inks : FillRect(q[1], q[2], q[3], q[4], ink)

(* ----------------------- draw_gear_icon (Spec) -------------------------- *)
\* the palettes of main: <<fg_color, bg_color, text_color>>
Palettes == { << <<80, 80, 80>>, <<255, 255, 255>>, <<40, 100, 40>> >>,
              << <<200, 200, 200>>, <<30, 30, 30>>, <<100, 200, 100>> >> }

fg_color == input[1]
bg_color == input[2]
text_color == input[3]

n_teeth == 8

\* math.cos and math.sin of 2 * math.pi * i / n_teeth, times CosScale
CosScale == 100000
CosTab == <<100000, 70711, 0, -70711, -100000, -70711, 0, 70711>>
SinTab == <<0, 70711, 100000, 70711, 0, -70711, -100000, -70711>>

\* v / k rounded to the nearest integer
RoundDiv(v, k) == (2 * v + k) \div (2 * k)

\* size * 0.42, size * 0.30, size * 0.15, size * 0.10 and size / 2
outer_r == 420 * size
inner_r == 300 * size
hole_r == 150 * size
tooth_w == 100 * size
cx0 == 500 * size
cy0 == 500 * size

tx(i) == cx0 + RoundDiv(outer_r * CosTab[i + 1], CosScale)
ty(i) == cy0 + RoundDiv(outer_r * SinTab[i + 1], CosScale)

\* int(size * 0.70), int(size * 0.22), int(size * 0.13), int(size * 0.18),
\* int(size * 0.08), int(size * 0.03)
text_y == (size * 70) \div 100
text_x_start == (size * 22) \div 100
char_w == (size * 13) \div 100
char_h == (size * 18) \div 100
bg_pad == (size * 8) \div 100
spacing == (size * 3) \div 100

Opaque(color) == color \o <<255>>

IconInit ==
    /\ size \in 1..MaxIcon
    /\ pixels = NewPixels(size)
    /\ pc = "teeth"
    /\ tooth = 0
    /\ nops = 0
    /\ call = NoCall
    /\ before = pixels
    /\ input \in Palettes
    /\ png = <<>>

DrawTooth ==
    /\ pc = "teeth"
    /\ FillCircle(tx(tooth), ty(tooth), tooth_w, Opaque(fg_color))
    /\ tooth' = tooth + 1
    /\ pc' = IF tooth + 1 < n_teeth THEN "teeth" ELSE "body"
    /\ UNCHANGED nops

DrawBody ==
    /\ pc = "body"
    /\ FillCircle(cx0, cy0, inner_r, Opaque(fg_color))
    /\ pc' = "hole"
    /\ UNCHANGED <<tooth, nops>>

DrawHole ==
    /\ pc = "hole"
    /\ FillCircle(cx0, cy0, hole_r, Opaque(bg_color))
    /\ pc' = "text_bg"
    /\ UNCHANGED <<tooth, nops>>

DrawTextBackground ==
    /\ pc = "text_bg"
    /\ FillRect((text_x_start - 2) * Unit, (text_y - 2) * Unit,
                (text_x_start + char_w * 3 + bg_pad + 2) * Unit,
                (text_y + char_h + 2) * Unit, Opaque(bg_color))
    /\ pc' = "letter_i"
    /\ UNCHANGED <<tooth, nops>>

DrawTextI ==
    /\ pc = "letter_i"
    /\ DrawLetterI(text_x_start, text_y, char_w, char_h, text_color)
    /\ pc' = "letter_n"
    /\ UNCHANGED <<tooth, nops>>

DrawTextN ==
    /\ pc = "letter_n"
    /\ DrawLetterN(text_x_start + (char_w + spacing), text_y, char_w, char_h,
                   text_color)
    /\ pc' = "letter_s"
    /\ UNCHANGED <<tooth, nops>>

DrawTextS ==
    /\ pc = "letter_s"
    /\ DrawLetterS(text_x_start + 2 * (char_w + spacing), text_y, char_w, char_h,
                   text_color)
    /\ pc' = "done"
    /\ UNCHANGED <<tooth, nops>>

Init == ApiInit \/ IconInit

Next ==
    \/ ApiSetPixel
    \/ ApiFillCircle
    \/ ApiFillRect
    \/ DrawTooth
    \/ DrawBody
    \/ DrawHole
    \/ DrawTextBackground
    \/ DrawTextI
    \/ DrawTextN
    \/ DrawTextS

Spec == Init /\ [][Next]_vars

(* ------------- one fill_circle or fill_rect call (SpecShapes) ----------- *)
ShapeInk == <<80, 100, 200, 255>>

\* quarter-pixel and half-pixel coordinates from outside to outside the canvas
QuarterCoords == { 250 * k : k \in -6..(4 * size + 6) }
HalfCoords == { 500 * k : k \in -3..(2 * size + 3) }
CoarseCoords == { -1500, -500, 0, 500, 1000, 1000 * size + 500 }
Radii == { -250, 0, 250, 500, 750, 1000, 1250, 1500, 2000 }

ShapesInit ==
    /\ size \in 1..MaxShape
    /\ pixels = NewPixels(size)
    /\ pc = "shape"
    /\ tooth = 0
    /\ nops = 0
    /\ call = NoCall
    /\ before = pixels
    /\ input = <<>>
    /\ png = <<>>

ShapeCircle ==
    /\ pc = "shape"
    /\ \E cx \in QuarterCoords, cy \in HalfCoords, radius \in Radii :
          FillCircle(cx, cy, radius, ShapeInk)
    /\ pc' = "drawn"
    /\ UNCHANGED <<tooth, nops>>

ShapeRect ==
    /\ pc = "shape"
    /\ \E x1 \in HalfCoords, x2 \in HalfCoords,
          y1 \in CoarseCoords, y2 \in CoarseCoords :
          FillRect(x1, y1, x2, y2, ShapeInk)
    /\ pc' = "drawn"
    /\ UNCHANGED <<tooth, nops>>

NextShapes == ShapeCircle \/ ShapeRect

SpecShapes == ShapesInit /\ [][NextShapes]_vars

(* --------------------- one letter (SpecGlyph) --------------------------- *)
GlyphColor == <<40, 100, 40>>

GlyphInit ==
    /\ size = GlyphSize
    /\ pixels = NewPixels(size)
    /\ pc = "glyph"
    /\ tooth = 0
    /\ nops = 0
    /\ call = NoCall
    /\ before = pixels
    /\ input = <<>>
    /\ png = <<>>

GlyphI ==
    /\ pc = "glyph"
    /\ \E sx \in 0..1, sy \in 0..1, w \in 1..size, h \in 1..size :
          DrawLetterI(sx, sy, w, h, GlyphColor)
    /\ pc' = "drawn"
    /\ UNCHANGED <<tooth, nops>>

GlyphN ==
    /\ pc = "glyph"
    /\ \E sx \in 0..1, sy \in 0..1, w \in 1..size, h \in 1..size :
          DrawLetterN(sx, sy, w, h, GlyphColor)
    /\ pc' = "drawn"
    /\ UNCHANGED <<tooth, nops>>

GlyphS ==
    /\ pc = "glyph"
    /\ \E sx \in 0..1, sy \in 0..1, w \in 1..size, h \in 1..size :
          DrawLetterS(sx, sy, w, h, GlyphColor)
    /\ pc' = "drawn"
    /\ UNCHANGED <<tooth, nops>>

NextGlyph == GlyphI \/ GlyphN \/ GlyphS

SpecGlyph == GlyphInit /\ [][NextGlyph]_vars

(* ------------ two writes to one fresh pixel (SpecBlend) ----------------- *)
BlendColors == { <<3, 103, 206>>, <<1, 255, 0>>, <<80, 80, 80>> }
PartialAlphas == { 1, 5, 128, 254 }
PartialInks == { c \o <<a>> : c \in BlendColors, a \in PartialAlphas }

BlendInit ==
    /\ size = 1
    /\ pixels = NewPixels(size)
    /\ pc = "first"
    /\ tooth = 0
    /\ nops = 0
    /\ call = NoCall
    /\ before = pixels
    /\ input \in PartialInks \X PartialInks
    /\ png = <<>>

WriteFirst ==
    /\ pc = "first"
    /\ SetPixel(0, 0, input[1])
    /\ pc' = "second"
    /\ UNCHANGED <<tooth, nops>>

WriteSecond ==
    /\ pc = "second"
    /\ SetPixel(0, 0, input[2])
    /\ pc' = "blended"
    /\ UNCHANGED <<tooth, nops>>

NextBlend == WriteFirst \/ WriteSecond

SpecBlend == BlendInit /\ [][NextBlend]_vars

(* --------------------------- create_png (SpecPng) ----------------------- *)
\* struct.pack('>I', n)
BE32(n) == << (n \div 16777216) % 256, (n \div 65536) % 256,
              (n \div 256) % 256, n % 256 >>

\* pixels[lo:hi] of a list held as a function on 0..n-1
Slice(px, lo, hi) ==
    LET n == Cardinality(DOMAIN px)
        a == Min(lo, n)
        b == Min(hi, n)
    IN  [k \in 1..Max(0, b - a) |-> px[a + k - 1]]

\* mutant of png_idx: the buffer is read column by column
png_idx_columns(width, x, y) == (x * width + y) * 4

png_idx(width, x, y) == (y * width + x) * 4

\* the bytes one row adds to raw_data from column x on
RECURSIVE RowFrom(_, _, _, _)
RowFrom(width, px, y, x) ==
    IF x >= width THEN <<>>
    ELSE LET idx == png_idx(width, x, y)
         IN  Slice(px, idx, idx + 4) \o RowFrom(width, px, y, x + 1)

\* raw_data from row y on; each row starts with the filter byte 0
RECURSIVE RawFrom(_, _, _, _)
RawFrom(width, height, px, y) ==
    IF y >= height THEN <<>>
    ELSE <<0>> \o RowFrom(width, px, y, 0) \o RawFrom(width, height, px, y + 1)

\* bytes(...) and struct.pack raise on a value that does not fit
Raises(width, height, px) ==
    \/ width < 0
    \/ height < 0
    \/ \E k \in DOMAIN RawFrom(width, height, px, 0) :
          RawFrom(width, height, px, 0)[k] \notin 0..255

\* the chunk payloads of the stream create_png returns; the deflate stream of
\* IDAT is kept as the raw_data it compresses, the CRCs are left out
create_png(width, height, px) ==
    IF Raises(width, height, px)
    THEN [raised |-> TRUE, ihdr |-> <<>>, raw_data |-> <<>>]
    ELSE [raised   |-> FALSE,
          ihdr     |-> BE32(width) \o BE32(height) \o <<8, 6, 0, 0, 0>>,
          raw_data |-> RawFrom(width, height, px, 0)]

\* buffers of n samples: sample k is (seed + step * k) % 300
Samples(n, seed, step) == [k \in 0..(n - 1) |-> (seed + step * k) % 300]

PngInit ==
    /\ size = 0
    /\ pixels = <<>>
    /\ pc = "encode"
    /\ tooth = 0
    /\ nops = 0
    /\ call = NoCall
    /\ before = <<>>
    /\ \E w \in 0..MaxDim, h \in 0..MaxDim, n \in 0..(4 * MaxDim * MaxDim + 1),
          seed \in {0, 100, 250}, step \in {1, 37} :
          input = [width |-> w, height |-> h, pixels |-> Samples(n, seed, step)]
    /\ png = <<>>

CreatePng ==
    /\ pc = "encode"
    /\ png' = create_png(input.width, input.height, input.pixels)
    /\ pc' = "encoded"
    /\ UNCHANGED <<size, pixels, tooth, nops, call, before, input>>

NextPng == CreatePng

SpecPng == PngInit /\ [][NextPng]_vars

(* ------------------------------ properties ------------------------------ *)
BufferIndices == 0..(size * size * 4 - 1)
CanvasPoints == (0..(size - 1)) \X (0..(size - 1))
OnCanvas(x, y) == x \in 0..(size - 1) /\ y \in 0..(size - 1)

\* the four channels of pixel (x, y) of a buffer
PixelAt(px, x, y) ==
    LET k == (y * size + x) * 4 IN <<px[k], px[k + 1], px[k + 2], px[k + 3]>>

\* every pixel but (x, y) is the same in both buffers
OthersSame(px, qx, x, y) ==
    \A p \in CanvasPoints :
        p # <<x, y>> => PixelAt(px, p[1], p[2]) = PixelAt(qx, p[1], p[2])

SetPixelOnCanvas ==
    call.op = "set_pixel" /\ OnCanvas(call.args[1], call.args[2])

\* C1: an in-canvas set_pixel with a = 0 leaves the whole buffer unchanged,
\* whatever the target pixel held, a fully transparent target included.
\* (The overwrite branch is tested first: on a target whose alpha is 0 the
\* write stores r, g, b and alpha 0.)
C1_ZeroAlphaIsNoOp ==
    (SetPixelOnCanvas /\ call.args[6] = 0) => pixels = before

\* the weighted sum of the blend in exact arithmetic, truncated
ExactBlend(c, old, a) == (c * a + old * (255 - a)) \div 255

\* C4: from a zero pixel, two partial-alpha writes (r1,g1,b1,a1) then
\* (r2,g2,b2,a2) leave each colour channel equal to
\* in2*(a2/255) + in1*(1 - a2/255) truncated toward zero, and the alpha equal
\* to min(255, a1 + a2).
C4_TwoPartialWrites ==
    pc = "blended" =>
        LET w1 == input[1]
            w2 == input[2]
        IN  PixelAt(pixels, 0, 0)
              = << ExactBlend(w2[1], w1[1], w2[4]), ExactBlend(w2[2], w1[2], w2[4]),
                   ExactBlend(w2[3], w1[3], w2[4]), Min(255, w1[4] + w2[4]) >>

\* C5: an in-canvas set_pixel with a = 255 leaves the target equal to
\* (r, g, b, 255) whatever it held, leaves every other pixel unchanged, and
\* the same write repeated changes nothing further.
C5_OpaqueOverwrite ==
    (SetPixelOnCanvas /\ call.args[6] = 255) =>
        LET x == call.args[1]
            y == call.args[2]
        IN  /\ PixelAt(pixels, x, y)
                  = <<call.args[3], call.args[4], call.args[5], 255>>
            /\ OthersSame(pixels, before, x, y)
            /\ set_pixel(pixels, x, y, call.args[3], call.args[4], call.args[5],
                         255) = pixels

\* an opaque write onto a pixel that held a partially transparent colour
C5_Witness ==
    /\ SetPixelOnCanvas
    /\ call.args[6] = 255
    /\ PixelAt(before, call.args[1], call.args[2]) = <<3, 103, 206, 128>>
    /\ size = 2

\* (x, y) is at Euclidean distance <= radius of (cx, cy), in exact arithmetic
InDisc(x, y, cx, cy, radius) ==
    /\ radius >= 0
    /\ (x * Unit - cx) * (x * Unit - cx) + (y * Unit - cy) * (y * Unit - cy)
          <= radius * radius

NoRepeats(seq) == Cardinality(Range(seq)) = Len(seq)

TowardZero(v) == (v - (v % Unit)) \div Unit + (IF v < 0 /\ v % Unit # 0 THEN 1 ELSE 0)

\* C7: fill_rect blends exactly the in-canvas pixels with
\* trunc(x1) <= x < trunc(x2) and trunc(y1) <= y < trunc(y2), each once, and
\* so blends nothing when x2 <= x1 or y2 <= y1.
C7_RectExact ==
    call.op = "fill_rect" =>
        LET x1 == call.args[1]
            y1 == call.args[2]
            x2 == call.args[3]
            y2 == call.args[4]
        IN  /\ NoRepeats(call.hits)
            /\ \A p \in Range(call.hits) : OnCanvas(p[1], p[2])
            /\ \A p \in CanvasPoints :
                  IF /\ TowardZero(x1) <= p[1] /\ p[1] < TowardZero(x2)
                     /\ TowardZero(y1) <= p[2] /\ p[2] < TowardZero(y2)
                  THEN /\ p \in Range(call.hits)
                       /\ PixelAt(pixels, p[1], p[2])
                             = PixelAt(set_pixel(before, p[1], p[2], call.args[5],
                                         call.args[6], call.args[7], call.args[8]),
                                       p[1], p[2])
                  ELSE /\ p \notin Range(call.hits)
                       /\ PixelAt(pixels, p[1], p[2]) = PixelAt(before, p[1], p[2])
            /\ (x2 <= x1 \/ y2 <= y1) => (call.hits = <<>> /\ pixels = before)

\* a rectangle with fractional corners, one of them negative, that blends
\* some pixels of the canvas and not all
C7_Witness ==
    /\ call.op = "fill_rect"
    /\ call.args[1] = -500
    /\ call.args[3] = 1500
    /\ call.hits # <<>>
    /\ \E p \in CanvasPoints : p \notin Range(call.hits)

IconSteps == {"teeth", "body", "hole", "text_bg", "letter_i", "letter_n", "letter_s"}

\* C8: for every size >= 1 draw_gear_icon runs every step to the end, every
\* buffer index it (or any set_pixel call) uses lies in [0, size*size*4), and
\* a set_pixel outside the canvas leaves the whole buffer unchanged.
C8_IndicesInBounds ==
    /\ DOMAIN pixels = BufferIndices
    /\ call.idxs \subseteq BufferIndices
    /\ pc \in IconSteps => ENABLED Next
    /\ (call.op = "set_pixel" /\ ~OnCanvas(call.args[1], call.args[2]))
          => pixels = before

\* draw_gear_icon has finished an icon of size 1, having written its pixel
C8_Witness ==
    /\ pc = "done"
    /\ size = 1
    /\ call.op = "draw_letter_s"
    /\ pixels # NewPixels(1)

\* C9: the buffer starts as size*size*4 zeros, and after any sequence of
\* set_pixel, fill_circle and fill_rect calls with colour and alpha in 0..255
\* it still has size*size*4 entries, each an integer in 0..255.
C9_ChannelRange ==
    /\ DOMAIN pixels = BufferIndices
    /\ \A k \in BufferIndices : pixels[k] \in 0..255
    /\ call = NoCall => \A k \in BufferIndices : pixels[k] = 0

\* a partial-alpha write whose accumulated alpha is clamped at 255
C9_Witness ==
    /\ SetPixelOnCanvas
    /\ call.args[6] = 128
    /\ PixelAt(before, call.args[1], call.args[2])[4] = 128
    /\ PixelAt(pixels, call.args[1], call.args[2])[4] = 255

\* the columns of row y, and the rows of column x, that hold a painted pixel
PaintedInRow(y) == { x \in 0..(size - 1) : PixelAt(pixels, x, y)[4] # 0 }
PaintedInColumn(x) == { y \in 0..(size - 1) : PixelAt(pixels, x, y)[4] # 0 }

\* C10: the centred strokes are exactly barW thick: the vertical bar of "i"
\* is max(2, w // 3) pixels wide and the middle bar of "s" is max(2, w // 4)
\* pixels thick, for every cell width w >= 1.  (Measured on a row between the
\* bars of "i", and on a column between the uprights of "s" with the top and
\* bottom bars taken off, for letters that lie within the canvas.)
C10_StrokeThickness ==
    LET sx == call.args[1]
        sy == call.args[2]
        w  == call.args[3]
        h  == call.args[4]
        fits == sx >= 1 /\ sx + w + 1 <= size /\ sy + h <= size
    IN  /\ (call.op = "draw_letter_i" /\ fits /\ h > 2 * Max(2, w \div 3))
              => Cardinality(PaintedInRow(sy + Max(2, w \div 3))) = Max(2, w \div 3)
        /\ (call.op = "draw_letter_s" /\ fits /\ w > 2 * Max(2, w \div 4)
              /\ (h \div 2) - (Max(2, w \div 4) \div 2) >= Max(2, w \div 4)
              /\ (h \div 2) + (Max(2, w \div 4) \div 2) + 1 <= h - Max(2, w \div 4))
              => Cardinality(PaintedInColumn(sx + Max(2, w \div 4))
                               \cap ((sy + Max(2, w \div 4))..(sy + h - Max(2, w \div 4) - 1)))
                    = Max(2, w \div 4)

\* C2: create_png fails when the buffer length is not width*height*4; it
\* returns a byte stream only when the length is consistent.
C2_MismatchFails ==
    (pc = "encoded" /\ ~png.raised) =>
        Cardinality(DOMAIN input.pixels) = input.width * input.height * 4

\* big-endian value of four bytes of a sequence, from position k
FromBE32(seq, k) ==
    ((seq[k] * 256 + seq[k + 1]) * 256 + seq[k + 2]) * 256 + seq[k + 3]

ConsistentInput ==
    /\ Cardinality(DOMAIN input.pixels) = input.width * input.height * 4
    /\ \A k \in DOMAIN input.pixels : input.pixels[k] \in 0..255

\* C3: for a buffer of width*height*4 values in 0..255 the payload is height
\* rows, each a filter byte 0 followed by the width*4 channel bytes of that
\* buffer row in order, so that stripping the filter bytes gives back the
\* buffer; IHDR carries the same width and height.
C3_RoundTrip ==
    (pc = "encoded" /\ ConsistentInput) =>
        LET wd     == input.width
            ht     == input.height
            stride == 4 * wd + 1
        IN  /\ ~png.raised
            /\ Len(png.raw_data) = ht * stride
            /\ \A y \in 0..(ht - 1) :
                  /\ png.raw_data[y * stride + 1] = 0
                  /\ \A c \in 0..(4 * wd - 1) :
                        png.raw_data[y * stride + 1 + c + 1]
                          = input.pixels[y * 4 * wd + c]
            /\ Len(png.ihdr) = 13
            /\ FromBE32(png.ihdr, 1) = wd
            /\ FromBE32(png.ihdr, 5) = ht
            /\ SubSeq(png.ihdr, 9, 13) = <<8, 6, 0, 0, 0>>

\* a 2 x 2 buffer of sixteen distinct samples has been encoded
C3_Witness ==
    /\ pc = "encoded"
    /\ ConsistentInput
    /\ input.width = 2
    /\ input.height = 2
    /\ input.pixels[0] # input.pixels[4]
    /\ ~png.raised

====
